---- MODULE Spec2Model ----
(***************************************************************************)
(* Verification model of the accelerator's stack orchestration:            *)
(*   - the create-stack Lambda handler (core/runtime/create-stack),        *)
(*   - the default EBS encryption key allocation of defaults step 1.       *)
(***************************************************************************)
EXTENDS Integers, Sequences, FiniteSets, TLC

\* ------------------------------------------------------------------------
\* Values
\* ------------------------------------------------------------------------

\* JavaScript `undefined` (an optional input field that is absent).
None == "<undefined>"

\* A JavaScript string is truthy unless it is undefined or empty.
Truthy(s) == s # None /\ s # ""

\* The account and region the Lambda itself runs in (ambient identity).
HomeAccount == "acc-1"
HomeRegion == "us-east-1"

AccountIds == {"acc-1", "acc-2"}
RegionNames == {"us-east-1", "ca-central-1"}
RoleNames == {"PipelineRole"}

\* The concurrently running copies of the Lambda.
Lambdas == {"L1", "L2"}

\* Total number of handler invocations explored in one behaviour.
MaxInvocations == 3

\* Attempts the credential broker makes before it gives up on a transient
\* failure.
MaxAttempts == 3

\* Logical account keys of the configuration.
AccountKeys == {"ops", "shared"}

\* config['global-options']['aws-org-master'].account and
\* config['global-options']['central-log-services'].account
MasterAccountKey == "master"
LogAccountKey == "log-archive"

\* The account keys of config.getAccountConfigs(), in order.
ConfigAccountKeys == <<"master", "log-archive", "ops", "shared">>

\* Number of Ec2AcceptVpcEndpointConnection constructs created.
MaxConnections == 4

\* Number of VPC configurations, and length of a sharing result.
MaxVpcConfigs == 2
MaxShared == 2

\* ------------------------------------------------------------------------
\* State
\* ------------------------------------------------------------------------
VARIABLES
  pc,          \* per Lambda: position of the handler
  input,       \* per Lambda: the CreateStackInput of the running invocation
  calls,       \* per Lambda: external calls issued by the running invocation
  cfn,         \* per Lambda: the CloudFormation client built at lines 80-86
  outcome,     \* per Lambda: result of createOrUpdateStack (discarded by the handler)
  prior,       \* per Lambda: parameters of the previous completed upsert of the same stack
  stacks,      \* provider: the deployed stacks
  lastUpsert,  \* provider: per deployed stack key, parameters of the last completed upsert
  invocations, \* number of invocations started so far
  error,       \* per Lambda: the rejection that ended the running invocation
  attempts,    \* per Lambda: failed attempts of the pending credential request
  session,     \* per Lambda: the credentials the running invocation obtained
  issued,      \* broker: number of credential sets issued so far
  sessionsUsed \* provider: the credentials of the delegated upsert calls, in order

xvars == <<error, attempts, session, issued, sessionsUsed>>

hvars == <<pc, input, calls, cfn, outcome, prior, stacks, lastUpsert, invocations,
           xvars>>

VARIABLES
  vpcConfigs,                \* config.getVpcConfigs(), each with its sharing result
  knownAccounts,             \* account keys for which an account stack can be obtained
  epc,                       \* position of createDefaultEbsEncryptionKey
  vi,                        \* index of the VPC configuration being processed
  accountKeys,               \* the account keys of the current VPC configuration
  ai,                        \* index of the next account key of the inner loop
  accountEbsEncryptionKeys,  \* the allocation record: account key -> region -> key
  accountStacks,             \* the stack registry: the handles created so far
  constructs,                \* the constructs created in the stacks, in creation order
  ebsLog                     \* what every inner iteration did, in order

VARIABLES
  spc,         \* position of step1
  si,          \* blockS3PublicAccess: index of the next account configuration
  s3Log,       \* blockS3PublicAccess: what every iteration did, in order
  stackCalls   \* the calls made to the stack registry and what they returned

svars == <<spc, si, s3Log, stackCalls>>

evars == <<vpcConfigs, knownAccounts, epc, vi, accountKeys, ai,
           accountEbsEncryptionKeys, accountStacks, constructs, ebsLog, svars>>

VARIABLES
  lambdaFunctions,  \* the Lambda functions that are children of the CDK stacks
  connections       \* the Ec2AcceptVpcEndpointConnection constructs, in creation order

vvars == <<lambdaFunctions, connections>>

vars == <<hvars, evars, vvars>>

\* CreateStackInput, restricted to the fields the handler branches on.
\* stackCapabilities, stackTemplate and parametersTableName are passed
\* through unchanged and are kept fixed.
CreateStackInput(names, params, accts, roles, regions, ignAccts, ignRegions) ==
  [stackName : names, stackParameters : params, accountId : accts,
   assumeRoleName : roles, region : regions,
   ignoreAccountId : ignAccts, ignoreRegion : ignRegions]

NoInput ==
  [stackName |-> None, stackParameters |-> None, accountId |-> None,
   assumeRoleName |-> None, region |-> None,
   ignoreAccountId |-> None, ignoreRegion |-> None]

\* Inputs of the single-Lambda specification: every combination of present,
\* absent and empty optional fields.
GateInputs ==
  CreateStackInput({"stack"}, {"p1"}, AccountIds \cup {None, ""},
                   RoleNames \cup {None, ""}, RegionNames \cup {None},
                   AccountIds \cup {None, ""}, RegionNames \cup {None, ""})

\* Inputs of the concurrent specification.
UpsertInputs ==
  CreateStackInput({"stack"}, {"p1", "p2"}, {"acc-2", None},
                   RoleNames \cup {None}, {"ca-central-1", None},
                   {"acc-2", None}, {None})

\* ------------------------------------------------------------------------
\* create.ts: the exclusion check of lines 53-57
\* ------------------------------------------------------------------------
\* Variant: one comparison of both fields, whether or not ignoreRegion is given.
ExcludedComparingRegionAlways(in) ==
  Truthy(in.ignoreAccountId) /\ in.ignoreAccountId = in.accountId
    /\ in.ignoreRegion = in.region

\* Variant: an account match excludes, whatever ignoreRegion says.
ExcludedOnAccountAlone(in) ==
  Truthy(in.ignoreAccountId) /\ in.ignoreAccountId = in.accountId

Excluded(in) ==
  \/ Truthy(in.ignoreAccountId) /\ in.ignoreAccountId = in.accountId
       /\ ~Truthy(in.ignoreRegion)
  \/ Truthy(in.ignoreAccountId) /\ Truthy(in.ignoreRegion)
       /\ in.ignoreAccountId = in.accountId /\ in.ignoreRegion = in.region

\* Variant: the role name is not tested.
UseAssumeRoleOnAccountOnly(in) == Truthy(in.accountId)

\* create.ts line 81: delegated credentials are requested iff both are truthy.
UseAssumeRole(in) == Truthy(in.accountId) /\ Truthy(in.assumeRoleName)

\* ------------------------------------------------------------------------
\* Clients and the provider
\* ------------------------------------------------------------------------
NoCredentials == [kind |-> "none", account |-> None, role |-> None]
AmbientCredentials == [kind |-> "ambient", account |-> HomeAccount, role |-> None]
DelegatedCredentials(a, r) == [kind |-> "delegated", account |-> a, role |-> r]

NoClient == [credentials |-> NoCredentials, region |-> None]

\* new CloudFormation(credentials, region) / new CloudFormation()
CloudFormation(credentials, region) == [credentials |-> credentials, region |-> region]

\* The (account, region) a client's calls land in: the account of its
\* credentials and its region, or the ambient region when none was given.
TargetOf(client) ==
  [account |-> client.credentials.account,
   region |-> IF Truthy(client.region) THEN client.region ELSE HomeRegion]

StackKey(client, in) ==
  [account |-> TargetOf(client).account, region |-> TargetOf(client).region,
   name |-> in.stackName]

KeyOf(u) == [account |-> u.account, region |-> u.region, name |-> u.name]

Unit(key, params) ==
  [account |-> key.account, region |-> key.region, name |-> key.name,
   params |-> params]

StackKeys == [account : AccountIds, region : RegionNames, name : {"stack"}]

\* Variant: createStack is always called, whether or not the stack exists.
CreateStackAlways(deployed, key, params) ==
  [stacks |-> deployed \cup {Unit(key, params)}, outcome |-> "Created"]

\* Variant: an existing stack is reported as updated but left as it was.
UpdateWithoutEffect(deployed, key, params) ==
  LET existing == {u \in deployed : KeyOf(u) = key} IN
  IF existing = {}
    THEN [stacks |-> deployed \cup {Unit(key, params)}, outcome |-> "Created"]
  ELSE IF \E u \in existing : u.params # params
    THEN [stacks |-> deployed, outcome |-> "Updated"]
  ELSE [stacks |-> deployed, outcome |-> "Unchanged"]

\* The conditions sts.getCredentialsForAccountAndRole can fail with.
TransientErrors == {"AssumeRoleExpired", "Throttled"}
CredentialErrors == {"AssumeRoleDenied"} \cup TransientErrors

\* Variant: the broker gives up on the first transient failure.
MayRetryNever(failed) == FALSE

\* The broker tries again after a transient failure while fewer than
\* MaxAttempts attempts have been made (failed counts the earlier failures).
MayRetry(failed) == failed + 1 < MaxAttempts

\* sts.getCredentialsForAccountAndRole, on success: a new set of short-lived
\* credentials for every call; nothing is kept between calls.
GetCredentialsForAccountAndRole(n) == [issued |-> n + 1, session |-> n + 1]

\* createOrUpdateStack: create when no stack of that name exists at the
\* target, update in place when it exists with other parameters, no-op
\* otherwise.  A conflicting attempt is retried, so the call takes effect
\* atomically at its completion.
CreateOrUpdateStack(deployed, key, params) ==
  LET existing == {u \in deployed : KeyOf(u) = key} IN
  IF existing = {}
    THEN [stacks |-> deployed \cup {Unit(key, params)}, outcome |-> "Created"]
  ELSE IF \E u \in existing : u.params # params
    THEN [stacks |-> (deployed \ existing) \cup {Unit(key, params)},
          outcome |-> "Updated"]
  ELSE [stacks |-> deployed, outcome |-> "Unchanged"]

\* ------------------------------------------------------------------------
\* create.ts: handler, one action per stretch of code between two awaits
\* ------------------------------------------------------------------------
HandlerInit ==
  /\ pc = [l \in Lambdas |-> "idle"]
  /\ input = [l \in Lambdas |-> NoInput]
  /\ calls = [l \in Lambdas |-> <<>>]
  /\ cfn = [l \in Lambdas |-> NoClient]
  /\ outcome = [l \in Lambdas |-> None]
  /\ prior = [l \in Lambdas |-> None]
  /\ stacks = {}
  /\ lastUpsert = [k \in StackKeys |-> None]
  /\ invocations = 0
  /\ error = [l \in Lambdas |-> None]
  /\ attempts = [l \in Lambdas |-> 0]
  /\ session = [l \in Lambdas |-> 0]
  /\ issued = 0
  /\ sessionsUsed = <<>>

\* The Lambda service delivers an event to an idle copy of the function.
Invoke(l, inputs) ==
  /\ pc[l] = "idle"
  /\ invocations < MaxInvocations
  /\ \E in \in inputs : input' = [input EXCEPT ![l] = in]
  /\ pc' = [pc EXCEPT ![l] = "start"]
  /\ invocations' = invocations + 1
  /\ UNCHANGED <<calls, cfn, outcome, prior, stacks, lastUpsert>>
  /\ UNCHANGED xvars
  /\ UNCHANGED <<evars, vvars>>

\* Variant: the exclusion branch falls through instead of returning.
SkipWithoutReturn(l) ==
  /\ pc[l] = "start"
  /\ Excluded(input[l])
  /\ calls' = [calls EXCEPT ![l] = Append(@, "loadAccounts")]
  /\ pc' = [pc EXCEPT ![l] = "loadAccounts"]
  /\ UNCHANGED <<input, cfn, outcome, prior, stacks, lastUpsert, invocations>>
  /\ UNCHANGED xvars
  /\ UNCHANGED <<evars, vvars>>

\* Lines 36-57, excluded request: return without doing anything.
Skip(l) ==
  /\ pc[l] = "start"
  /\ Excluded(input[l])
  /\ pc' = [pc EXCEPT ![l] = "skipped"]
  /\ UNCHANGED <<input, calls, cfn, outcome, prior, stacks, lastUpsert, invocations>>
  /\ UNCHANGED xvars
  /\ UNCHANGED <<evars, vvars>>

\* Lines 36-61, request not excluded: issue loadAccounts.
CallLoadAccounts(l) ==
  /\ pc[l] = "start"
  /\ ~Excluded(input[l])
  /\ calls' = [calls EXCEPT ![l] = Append(@, "loadAccounts")]
  /\ pc' = [pc EXCEPT ![l] = "loadAccounts"]
  /\ UNCHANGED <<input, cfn, outcome, prior, stacks, lastUpsert, invocations>>
  /\ UNCHANGED xvars
  /\ UNCHANGED <<evars, vvars>>

\* Lines 61-78: the accounts arrive; issue getTemplateBody.
CallGetTemplateBody(l) ==
  /\ pc[l] = "loadAccounts"
  /\ calls' = [calls EXCEPT ![l] = Append(@, "getTemplateBody")]
  /\ pc' = [pc EXCEPT ![l] = "getTemplateBody"]
  /\ UNCHANGED <<input, cfn, outcome, prior, stacks, lastUpsert, invocations>>
  /\ UNCHANGED xvars
  /\ UNCHANGED <<evars, vvars>>

\* Variant: the rejection is caught and logged, and the handler goes on.
LoadAccountsFailsAndGoesOn(l) ==
  /\ pc[l] = "loadAccounts"
  /\ calls' = [calls EXCEPT ![l] = Append(@, "getTemplateBody")]
  /\ pc' = [pc EXCEPT ![l] = "getTemplateBody"]
  /\ error' = [error EXCEPT ![l] = "loadAccounts"]
  /\ UNCHANGED <<input, cfn, outcome, prior, stacks, lastUpsert, invocations>>
  /\ UNCHANGED <<attempts, session, issued, sessionsUsed>>
  /\ UNCHANGED <<evars, vvars>>

\* Line 61: loadAccounts rejects; the handler rejects.
LoadAccountsFails(l) ==
  /\ pc[l] = "loadAccounts"
  /\ pc' = [pc EXCEPT ![l] = "threw"]
  /\ error' = [error EXCEPT ![l] = "loadAccounts"]
  /\ UNCHANGED <<input, calls, cfn, outcome, prior, stacks, lastUpsert, invocations>>
  /\ UNCHANGED <<attempts, session, issued, sessionsUsed>>
  /\ UNCHANGED <<evars, vvars>>

\* Line 78: getTemplateBody rejects; the handler rejects.
GetTemplateBodyFails(l) ==
  /\ pc[l] = "getTemplateBody"
  /\ pc' = [pc EXCEPT ![l] = "threw"]
  /\ error' = [error EXCEPT ![l] = "getTemplateBody"]
  /\ UNCHANGED <<input, calls, cfn, outcome, prior, stacks, lastUpsert, invocations>>
  /\ UNCHANGED <<attempts, session, issued, sessionsUsed>>
  /\ UNCHANGED <<evars, vvars>>

\* Lines 78-82, delegated branch: issue sts.getCredentialsForAccountAndRole.
CallGetCredentials(l) ==
  /\ pc[l] = "getTemplateBody"
  /\ UseAssumeRole(input[l])
  /\ calls' = [calls EXCEPT ![l] = Append(@, "getCredentialsForAccountAndRole")]
  /\ pc' = [pc EXCEPT ![l] = "getCredentials"]
  /\ UNCHANGED <<input, cfn, outcome, prior, stacks, lastUpsert, invocations>>
  /\ UNCHANGED xvars
  /\ UNCHANGED <<evars, vvars>>

\* Inside the pending credential request: an attempt fails with a transient
\* condition and the broker tries again.
RetryGetCredentials(l) ==
  /\ pc[l] = "getCredentials"
  /\ MayRetry(attempts[l])
  /\ attempts' = [attempts EXCEPT ![l] = @ + 1]
  /\ UNCHANGED <<pc, input, calls, cfn, outcome, prior, stacks, lastUpsert, invocations>>
  /\ UNCHANGED <<error, session, issued, sessionsUsed>>
  /\ UNCHANGED <<evars, vvars>>

\* Line 82: the credential request rejects (the role is denied, or a
\* transient condition outlasts the broker's attempts); the handler rejects.
GetCredentialsFails(l) ==
  /\ pc[l] = "getCredentials"
  /\ \E kind \in CredentialErrors :
       /\ kind \in TransientErrors => ~MayRetry(attempts[l])
       /\ error' = [error EXCEPT ![l] = kind]
  /\ attempts' = [attempts EXCEPT ![l] = @ + 1]
  /\ pc' = [pc EXCEPT ![l] = "threw"]
  /\ UNCHANGED <<input, calls, cfn, outcome, prior, stacks, lastUpsert, invocations>>
  /\ UNCHANGED <<session, issued, sessionsUsed>>
  /\ UNCHANGED <<evars, vvars>>

\* Variant: the credentials are kept in module scope, next to `sts`, and an
\* invocation uses the ones a previous invocation left there.
CallUpsertDelegatedWithKeptCredentials(l) ==
  /\ pc[l] = "getCredentials"
  /\ LET got == IF issued = 0 THEN GetCredentialsForAccountAndRole(issued)
                ELSE [issued |-> issued, session |-> issued] IN
       /\ issued' = got.issued
       /\ session' = [session EXCEPT ![l] = got.session]
       /\ sessionsUsed' = Append(sessionsUsed, got.session)
  /\ attempts' = [attempts EXCEPT ![l] = 0]
  /\ cfn' = [cfn EXCEPT ![l] =
       CloudFormation(DelegatedCredentials(input[l].accountId, input[l].assumeRoleName),
                      input[l].region)]
  /\ calls' = [calls EXCEPT ![l] = Append(@, "createOrUpdateStack")]
  /\ pc' = [pc EXCEPT ![l] = "createOrUpdateStack"]
  /\ UNCHANGED <<input, outcome, prior, stacks, lastUpsert, invocations, error>>
  /\ UNCHANGED <<evars, vvars>>

\* Lines 82-87: build the client from the credentials and the request's
\* region and issue createOrUpdateStack.
CallUpsertDelegated(l) ==
  /\ pc[l] = "getCredentials"
  /\ LET got == GetCredentialsForAccountAndRole(issued) IN
       /\ issued' = got.issued
       /\ session' = [session EXCEPT ![l] = got.session]
       /\ sessionsUsed' = Append(sessionsUsed, got.session)
  /\ attempts' = [attempts EXCEPT ![l] = 0]
  /\ cfn' = [cfn EXCEPT ![l] =
       CloudFormation(DelegatedCredentials(input[l].accountId, input[l].assumeRoleName),
                      input[l].region)]
  /\ calls' = [calls EXCEPT ![l] = Append(@, "createOrUpdateStack")]
  /\ pc' = [pc EXCEPT ![l] = "createOrUpdateStack"]
  /\ UNCHANGED <<input, outcome, prior, stacks, lastUpsert, invocations, error>>
  /\ UNCHANGED <<evars, vvars>>

\* Variant: the ambient client is given the request's region too.
CallUpsertAmbientWithRegion(l) ==
  /\ pc[l] = "getTemplateBody"
  /\ ~UseAssumeRole(input[l])
  /\ cfn' = [cfn EXCEPT ![l] = CloudFormation(AmbientCredentials, input[l].region)]
  /\ calls' = [calls EXCEPT ![l] = Append(@, "createOrUpdateStack")]
  /\ pc' = [pc EXCEPT ![l] = "createOrUpdateStack"]
  /\ UNCHANGED <<input, outcome, prior, stacks, lastUpsert, invocations>>
  /\ UNCHANGED xvars
  /\ UNCHANGED <<evars, vvars>>

\* Lines 78-87, ambient branch: build the default client and issue
\* createOrUpdateStack.
CallUpsertAmbient(l) ==
  /\ pc[l] = "getTemplateBody"
  /\ ~UseAssumeRole(input[l])
  /\ cfn' = [cfn EXCEPT ![l] = CloudFormation(AmbientCredentials, None)]
  /\ calls' = [calls EXCEPT ![l] = Append(@, "createOrUpdateStack")]
  /\ pc' = [pc EXCEPT ![l] = "createOrUpdateStack"]
  /\ UNCHANGED <<input, outcome, prior, stacks, lastUpsert, invocations>>
  /\ UNCHANGED xvars
  /\ UNCHANGED <<evars, vvars>>

\* Lines 87-93: createOrUpdateStack completes; the handler resolves.
UpsertCompletes(l) ==
  /\ pc[l] = "createOrUpdateStack"
  /\ LET key == StackKey(cfn[l], input[l])
         res == CreateOrUpdateStack(stacks, key, input[l].stackParameters)
     IN /\ stacks' = res.stacks
        /\ outcome' = [outcome EXCEPT ![l] = res.outcome]
        /\ prior' = [prior EXCEPT ![l] = lastUpsert[key]]
        /\ lastUpsert' = [lastUpsert EXCEPT ![key] = input[l].stackParameters]
  /\ pc' = [pc EXCEPT ![l] = "done"]
  /\ UNCHANGED <<input, calls, cfn, invocations>>
  /\ UNCHANGED xvars
  /\ UNCHANGED <<evars, vvars>>

\* The invocation is over; the Lambda copy is free for the next event.
Finish(l) ==
  /\ pc[l] \in {"skipped", "done", "threw"}
  /\ pc' = [pc EXCEPT ![l] = "idle"]
  /\ input' = [input EXCEPT ![l] = NoInput]
  /\ calls' = [calls EXCEPT ![l] = <<>>]
  /\ cfn' = [cfn EXCEPT ![l] = NoClient]
  /\ outcome' = [outcome EXCEPT ![l] = None]
  /\ prior' = [prior EXCEPT ![l] = None]
  /\ error' = [error EXCEPT ![l] = None]
  /\ attempts' = [attempts EXCEPT ![l] = 0]
  /\ session' = [session EXCEPT ![l] = 0]
  /\ UNCHANGED <<stacks, lastUpsert, invocations, issued, sessionsUsed>>
  /\ UNCHANGED <<evars, vvars>>

handler(l, inputs) ==
  \/ Invoke(l, inputs)
  \/ Skip(l)
  \/ CallLoadAccounts(l)
  \/ LoadAccountsFails(l)
  \/ CallGetTemplateBody(l)
  \/ GetTemplateBodyFails(l)
  \/ CallGetCredentials(l)
  \/ RetryGetCredentials(l)
  \/ GetCredentialsFails(l)
  \/ CallUpsertDelegated(l)
  \/ CallUpsertAmbient(l)
  \/ UpsertCompletes(l)
  \/ Finish(l)


\* ------------------------------------------------------------------------
\* step-1.ts: createDefaultEbsEncryptionKey
\* ------------------------------------------------------------------------
BoundedSeq(S, n) == UNION {[1..k -> S] : k \in 0..n}

Range(s) == {s[n] : n \in DOMAIN s}

\* One entry of config.getVpcConfigs() together with the account keys that
\* getVpcSharedAccountKeys(accounts, vpcConfig, ouKey) returns for it.
VpcConfigs ==
  [accountKey : AccountKeys, region : RegionNames,
   vpcSharedTo : BoundedSeq(AccountKeys, MaxShared)]

\* Array.from(new Set(arr)): the first occurrence of every element, in order.
ArrayFromSet(arr) ==
  LET F[n \in 0..Len(arr)] ==
        IF n = 0 THEN <<>>
        ELSE IF \E m \in 1..(n - 1) : arr[m] = arr[n] THEN F[n - 1]
        ELSE Append(F[n - 1], arr[n])
  IN F[Len(arr)]

\* Variant: the sharing result and the owner are not deduplicated.
VpcAccountKeysWithoutSet(vpc) == Append(vpc.vpcSharedTo, vpc.accountKey)

\* Lines 373-375: the account keys one VPC configuration is processed for.
VpcAccountKeys(vpc) == ArrayFromSet(Append(vpc.vpcSharedTo, vpc.accountKey))

\* No key: the entry of a pair that has no recorded key.
NoKey == 0

NoKeys == [a \in AccountKeys |-> [r \in RegionNames |-> NoKey]]

\* Variant: the record is never consulted.
RecordedKeyNotConsulted(keys, a, r) == NoKey

\* Line 377: accountEbsEncryptionKeys[localAccountKey]?.[region]
RecordedKey(keys, a, r) == keys[a][r]

\* Variant: the account's entry is replaced instead of extended:
\* { [region]: key } without the spread of the previous entry.
RecordKeyWithoutSpread(keys, a, r, key) ==
  [keys EXCEPT ![a] = [rr \in RegionNames |-> IF rr = r THEN key ELSE NoKey]]

\* Variant: the created key is not recorded.
RecordKeyForgotten(keys, a, r, key) == keys

\* Lines 410-413: { ...accountEbsEncryptionKeys[localAccountKey], [region]: key }
RecordKey(keys, a, r, key) == [keys EXCEPT ![a] = [@ EXCEPT ![r] = key]]

NoHandle == [accountKey |-> None, region |-> None, id |-> 0]

\* The region a registry call is made for: the home region when the caller
\* gives none.
DefaultedRegion(r) == IF r = None THEN HomeRegion ELSE r

\* Variant: the registry is keyed by the region exactly as the caller gave it.
TryGetOrCreateAccountStackByGivenRegion(registry, known, a, r) ==
  LET found == {h \in registry : h.accountKey = a /\ h.region = r} IN
  IF a \notin known THEN [registry |-> registry, stack |-> NoHandle]
  ELSE IF found # {} THEN [registry |-> registry, stack |-> CHOOSE h \in found : TRUE]
  ELSE LET h == [accountKey |-> a, region |-> r, id |-> Cardinality(registry) + 1]
       IN [registry |-> registry \cup {h}, stack |-> h]

\* AccountStacks.tryGetOrCreateAccountStack(accountKey, region): nothing for
\* an account that is not known; otherwise the handle registered for the
\* pair, created on first request.
TryGetOrCreateAccountStack(registry, known, a, r) ==
  LET region == DefaultedRegion(r)
      found == {h \in registry : h.accountKey = a /\ h.region = region} IN
  IF a \notin known THEN [registry |-> registry, stack |-> NoHandle]
  ELSE IF found # {} THEN [registry |-> registry, stack |-> CHOOSE h \in found : TRUE]
  ELSE LET h == [accountKey |-> a, region |-> region, id |-> Cardinality(registry) + 1]
       IN [registry |-> registry \cup {h}, stack |-> h]

\* One entry of the log of registry calls.
StackCall(a, r, stack) == [accountKey |-> a, region |-> r, stack |-> stack.id]

\* new <Construct>(accountStack, id, ...): a new child of the stack.
Construct(stack, id, ref) == [stack |-> stack.id, id |-> id, ref |-> ref]

LogEntry(kind, a, r, key) ==
  [vpc |-> vi, accountKey |-> a, region |-> r, kind |-> kind, key |-> key]

EbsIdle ==
  /\ vpcConfigs = <<>>
  /\ knownAccounts = {}
  /\ epc = "off"
  /\ vi = 0
  /\ accountKeys = <<>>
  /\ ai = 0
  /\ accountEbsEncryptionKeys = NoKeys
  /\ accountStacks = {}
  /\ constructs = <<>>
  /\ ebsLog = <<>>
  /\ spc = "off"
  /\ si = 0
  /\ s3Log = <<>>
  /\ stackCalls = <<>>

\* Line 370: entry of the function, for any configuration.
EbsInit ==
  /\ vpcConfigs \in BoundedSeq(VpcConfigs, MaxVpcConfigs)
  /\ knownAccounts \in SUBSET AccountKeys
  /\ epc = "vpcConfigs"
  /\ vi = 0
  /\ accountKeys = <<>>
  /\ ai = 0
  /\ accountEbsEncryptionKeys = NoKeys
  /\ accountStacks = {}
  /\ constructs = <<>>
  /\ ebsLog = <<>>
  /\ spc = "off"
  /\ si = 0
  /\ s3Log = <<>>
  /\ stackCalls = <<>>

\* Lines 371-375: take the next VPC configuration and resolve its accounts.
NextVpcConfig ==
  /\ epc = "vpcConfigs"
  /\ vi < Len(vpcConfigs)
  /\ vi' = vi + 1
  /\ accountKeys' = VpcAccountKeys(vpcConfigs[vi + 1])
  /\ ai' = 1
  /\ epc' = "accountKeys"
  /\ UNCHANGED <<vpcConfigs, knownAccounts, accountEbsEncryptionKeys,
                 accountStacks, constructs, ebsLog>>
  /\ UNCHANGED <<spc, si, s3Log, stackCalls>>
  /\ UNCHANGED <<hvars, vvars>>

\* Lines 376-380: the pair already has a recorded key.
AlreadyCreated ==
  /\ epc = "accountKeys"
  /\ ai <= Len(accountKeys)
  /\ LET a == accountKeys[ai]
         r == vpcConfigs[vi].region
     IN /\ RecordedKey(accountEbsEncryptionKeys, a, r) # NoKey
        /\ ebsLog' = Append(ebsLog,
             LogEntry("exists", a, r, RecordedKey(accountEbsEncryptionKeys, a, r)))
  /\ ai' = ai + 1
  /\ UNCHANGED <<vpcConfigs, knownAccounts, epc, vi, accountKeys,
                 accountEbsEncryptionKeys, accountStacks, constructs>>
  /\ UNCHANGED <<spc, si, s3Log, stackCalls>>
  /\ UNCHANGED <<hvars, vvars>>

\* Variant: an account without a stack ends the whole function.
CannotFindAccountStackAndReturns ==
  /\ epc = "accountKeys"
  /\ ai <= Len(accountKeys)
  /\ LET a == accountKeys[ai]
         r == vpcConfigs[vi].region
         got == TryGetOrCreateAccountStack(accountStacks, knownAccounts, a, r)
     IN /\ RecordedKey(accountEbsEncryptionKeys, a, r) = NoKey
        /\ got.stack = NoHandle
        /\ accountStacks' = got.registry
        /\ stackCalls' = Append(stackCalls, StackCall(a, r, got.stack))
        /\ ebsLog' = Append(ebsLog, LogEntry("warn", a, r, NoKey))
  /\ epc' = "returned"
  /\ UNCHANGED <<vpcConfigs, knownAccounts, vi, accountKeys, ai,
                 accountEbsEncryptionKeys, constructs>>
  /\ UNCHANGED <<spc, si, s3Log>>
  /\ UNCHANGED <<hvars, vvars>>

\* Lines 376-386: no recorded key and no account stack: warn and continue.
CannotFindAccountStack ==
  /\ epc = "accountKeys"
  /\ ai <= Len(accountKeys)
  /\ LET a == accountKeys[ai]
         r == vpcConfigs[vi].region
         got == TryGetOrCreateAccountStack(accountStacks, knownAccounts, a, r)
     IN /\ RecordedKey(accountEbsEncryptionKeys, a, r) = NoKey
        /\ got.stack = NoHandle
        /\ accountStacks' = got.registry
        /\ stackCalls' = Append(stackCalls, StackCall(a, r, got.stack))
        /\ ebsLog' = Append(ebsLog, LogEntry("warn", a, r, NoKey))
  /\ ai' = ai + 1
  /\ UNCHANGED <<vpcConfigs, knownAccounts, epc, vi, accountKeys,
                 accountEbsEncryptionKeys, constructs>>
  /\ UNCHANGED <<spc, si, s3Log>>
  /\ UNCHANGED <<hvars, vvars>>

\* Lines 376-419: no recorded key: create the key in the account stack,
\* enable default encryption, record the key and emit the output.
CreateEbsKey ==
  /\ epc = "accountKeys"
  /\ ai <= Len(accountKeys)
  /\ LET a == accountKeys[ai]
         r == vpcConfigs[vi].region
         got == TryGetOrCreateAccountStack(accountStacks, knownAccounts, a, r)
         key == Len(constructs) + 1
     IN /\ RecordedKey(accountEbsEncryptionKeys, a, r) = NoKey
        /\ got.stack # NoHandle
        /\ accountStacks' = got.registry
        /\ stackCalls' = Append(stackCalls, StackCall(a, r, got.stack))
        /\ constructs' = constructs \o
             << Construct(got.stack, "EbsDefaultEncryptionKey", key),
                Construct(got.stack, "EbsDefaultEncryptionSet", key + 1),
                Construct(got.stack, "EbsEncryptionKey", key + 2) >>
        /\ accountEbsEncryptionKeys' = RecordKey(accountEbsEncryptionKeys, a, r, key)
        /\ ebsLog' = Append(ebsLog, LogEntry("created", a, r, key))
  /\ ai' = ai + 1
  /\ UNCHANGED <<vpcConfigs, knownAccounts, epc, vi, accountKeys>>
  /\ UNCHANGED <<spc, si, s3Log>>
  /\ UNCHANGED <<hvars, vvars>>

\* Line 376: the account keys of this VPC configuration are exhausted.
EndVpcConfig ==
  /\ epc = "accountKeys"
  /\ ai > Len(accountKeys)
  /\ epc' = "vpcConfigs"
  /\ UNCHANGED <<vpcConfigs, knownAccounts, vi, accountKeys, ai,
                 accountEbsEncryptionKeys, accountStacks, constructs, ebsLog>>
  /\ UNCHANGED <<spc, si, s3Log, stackCalls>>
  /\ UNCHANGED <<hvars, vvars>>

\* Line 422: every VPC configuration is processed; return the record.
ReturnKeys ==
  /\ epc = "vpcConfigs"
  /\ vi = Len(vpcConfigs)
  /\ epc' = "returned"
  /\ UNCHANGED <<vpcConfigs, knownAccounts, vi, accountKeys, ai,
                 accountEbsEncryptionKeys, accountStacks, constructs, ebsLog>>
  /\ UNCHANGED <<spc, si, s3Log, stackCalls>>
  /\ UNCHANGED <<hvars, vvars>>

createDefaultEbsEncryptionKey ==
  \/ NextVpcConfig
  \/ AlreadyCreated
  \/ CannotFindAccountStack
  \/ CreateEbsKey
  \/ EndVpcConfig
  \/ ReturnKeys

\* No Ec2AcceptVpcEndpointConnection construct exists.
VpceIdle ==
  /\ lambdaFunctions = <<>>
  /\ connections = <<>>

\* One run of createDefaultEbsEncryptionKey.
InitEbs == HandlerInit /\ EbsInit /\ VpceIdle
NextEbs == createDefaultEbsEncryptionKey
SpecEbs == InitEbs /\ [][NextEbs]_vars

\* ------------------------------------------------------------------------
\* step-1.ts: step1 and the functions it calls
\* ------------------------------------------------------------------------

\* The constructs ids created one after the other in one stack.
NewConstructs(stack, ids) ==
  [n \in 1..Len(ids) |-> Construct(stack, ids[n], Len(constructs) + n)]

\* Line 38: entry of step1, for any configuration and any set of accounts
\* that have an account stack.
Step1Init ==
  /\ vpcConfigs \in BoundedSeq(VpcConfigs, MaxVpcConfigs)
  /\ knownAccounts \in SUBSET Range(ConfigAccountKeys)
  /\ epc = "off"
  /\ vi = 0
  /\ accountKeys = <<>>
  /\ ai = 0
  /\ accountEbsEncryptionKeys = NoKeys
  /\ accountStacks = {}
  /\ constructs = <<>>
  /\ ebsLog = <<>>
  /\ spc = "blockS3PublicAccess"
  /\ si = 1
  /\ s3Log = <<>>
  /\ stackCalls = <<>>

EbsUnchanged ==
  UNCHANGED <<vpcConfigs, knownAccounts, epc, vi, accountKeys, ai,
              accountEbsEncryptionKeys, ebsLog>>

\* Lines 56-69: the account has a stack; block public access in it.
S3PublicAccessBlock ==
  /\ spc = "blockS3PublicAccess"
  /\ si <= Len(ConfigAccountKeys)
  /\ LET a == ConfigAccountKeys[si]
         got == TryGetOrCreateAccountStack(accountStacks, knownAccounts, a, None)
     IN /\ got.stack # NoHandle
        /\ accountStacks' = got.registry
        /\ stackCalls' = Append(stackCalls, StackCall(a, None, got.stack))
        /\ constructs' = constructs \o NewConstructs(got.stack, <<"PublicAccessBlock">>)
        /\ s3Log' = Append(s3Log, [accountKey |-> a, kind |-> "blocked"])
  /\ si' = si + 1
  /\ UNCHANGED spc
  /\ EbsUnchanged
  /\ UNCHANGED <<hvars, vvars>>

\* Lines 56-61: the account has no stack: warn and continue.
S3CannotFindAccountStack ==
  /\ spc = "blockS3PublicAccess"
  /\ si <= Len(ConfigAccountKeys)
  /\ LET a == ConfigAccountKeys[si]
         got == TryGetOrCreateAccountStack(accountStacks, knownAccounts, a, None)
     IN /\ got.stack = NoHandle
        /\ accountStacks' = got.registry
        /\ stackCalls' = Append(stackCalls, StackCall(a, None, got.stack))
        /\ s3Log' = Append(s3Log, [accountKey |-> a, kind |-> "warn"])
  /\ si' = si + 1
  /\ UNCHANGED <<spc, constructs>>
  /\ EbsUnchanged
  /\ UNCHANGED <<hvars, vvars>>

\* Lines 56, 39-41: the account configurations are exhausted.
EndBlockS3PublicAccess ==
  /\ spc = "blockS3PublicAccess"
  /\ si > Len(ConfigAccountKeys)
  /\ spc' = "createCentralBucketCopy"
  /\ UNCHANGED <<si, s3Log, stackCalls, accountStacks, constructs>>
  /\ EbsUnchanged
  /\ UNCHANGED <<hvars, vvars>>

\* Lines 80, 159: getOrCreateAccountStack finds no account for the key and
\* throws; step1 rejects.
GetOrCreateAccountStackThrows ==
  /\ \/ spc = "createCentralBucketCopy" /\ MasterAccountKey \notin knownAccounts
     \/ spc = "createCentralLogBucket" /\ LogAccountKey \notin knownAccounts
  /\ spc' = "threw"
  /\ UNCHANGED <<si, s3Log, stackCalls, accountStacks, constructs>>
  /\ EbsUnchanged
  /\ UNCHANGED <<hvars, vvars>>

\* Lines 76-150: createCentralBucketCopy.
CreateCentralBucketCopy ==
  /\ spc = "createCentralBucketCopy"
  /\ LET got == TryGetOrCreateAccountStack(accountStacks, knownAccounts,
                                           MasterAccountKey, None)
     IN /\ got.stack # NoHandle
        /\ accountStacks' = got.registry
        /\ stackCalls' = Append(stackCalls, StackCall(MasterAccountKey, None, got.stack))
        /\ constructs' = constructs \o NewConstructs(got.stack,
             <<"Organizations", "CentralBucketKey", "CentralBucketCopy",
               "CentralBucketOutput">>)
  /\ spc' = "createCentralLogBucket"
  /\ UNCHANGED <<si, s3Log>>
  /\ EbsUnchanged
  /\ UNCHANGED <<hvars, vvars>>

\* Lines 155-290: createCentralLogBucket.
CreateCentralLogBucket ==
  /\ spc = "createCentralLogBucket"
  /\ LET got == TryGetOrCreateAccountStack(accountStacks, knownAccounts,
                                           LogAccountKey, None)
     IN /\ got.stack # NoHandle
        /\ accountStacks' = got.registry
        /\ stackCalls' = Append(stackCalls, StackCall(LogAccountKey, None, got.stack))
        /\ constructs' = constructs \o NewConstructs(got.stack,
             <<"Organizations", "LogBucketOutput">>)
  /\ spc' = "createDefaultEbsEncryptionKey"
  /\ UNCHANGED <<si, s3Log>>
  /\ EbsUnchanged
  /\ UNCHANGED <<hvars, vvars>>

\* Lines 43, 366-370: step1 calls createDefaultEbsEncryptionKey.
CallCreateDefaultEbsEncryptionKey ==
  /\ spc = "createDefaultEbsEncryptionKey"
  /\ epc = "off"
  /\ epc' = "vpcConfigs"
  /\ UNCHANGED <<vpcConfigs, knownAccounts, vi, accountKeys, ai,
                 accountEbsEncryptionKeys, accountStacks, constructs, ebsLog, svars>>
  /\ UNCHANGED <<hvars, vvars>>

\* Lines 44, 295-364, 45-50: createAesLogBucket, the ELBv2 account of the
\* stack's region is known; step1 returns.
CreateAesLogBucket ==
  /\ spc = "createDefaultEbsEncryptionKey"
  /\ epc = "returned"
  /\ LET got == TryGetOrCreateAccountStack(accountStacks, knownAccounts,
                                           LogAccountKey, None)
     IN /\ got.stack # NoHandle
        /\ accountStacks' = got.registry
        /\ stackCalls' = Append(stackCalls, StackCall(LogAccountKey, None, got.stack))
        /\ constructs' = constructs \o NewConstructs(got.stack,
             <<"AesBucket", "AesLogBucketOutput">>)
  /\ spc' = "returned"
  /\ UNCHANGED <<si, s3Log>>
  /\ EbsUnchanged
  /\ UNCHANGED <<hvars, vvars>>

\* Lines 44, 295-306, 45-50: createAesLogBucket, the ELBv2 account of the
\* stack's region is not known: warn; step1 returns without the bucket.
AesLogBucketUnknownRegion ==
  /\ spc = "createDefaultEbsEncryptionKey"
  /\ epc = "returned"
  /\ LET got == TryGetOrCreateAccountStack(accountStacks, knownAccounts,
                                           LogAccountKey, None)
     IN /\ got.stack # NoHandle
        /\ accountStacks' = got.registry
        /\ stackCalls' = Append(stackCalls, StackCall(LogAccountKey, None, got.stack))
  /\ spc' = "returned"
  /\ UNCHANGED <<si, s3Log, constructs>>
  /\ EbsUnchanged
  /\ UNCHANGED <<hvars, vvars>>

step1 ==
  \/ S3PublicAccessBlock
  \/ S3CannotFindAccountStack
  \/ EndBlockS3PublicAccess
  \/ GetOrCreateAccountStackThrows
  \/ CreateCentralBucketCopy
  \/ CreateCentralLogBucket
  \/ CallCreateDefaultEbsEncryptionKey
  \/ createDefaultEbsEncryptionKey
  \/ CreateAesLogBucket
  \/ AesLogBucketUnknownRegion

\* One run of step1.
InitStep1 == HandlerInit /\ Step1Init /\ VpceIdle
NextStep1 == step1
SpecStep1 == InitStep1 /\ [][NextStep1]_vars

\* ------------------------------------------------------------------------
\* Ec2AcceptVpcEndpointConnection (custom resource construct)
\* ------------------------------------------------------------------------
CdkStacks == {"StackA", "StackB"}
RoleArns == {"arn:role/one", "arn:role/two"}

resourceType == "Custom::ModifyVpcEndpointServicePermissions"

\* Line 51: `${resourceType}Lambda`
constructName == "Custom::ModifyVpcEndpointServicePermissionsLambda"

\* Line 53: stack.node.tryFindChild(constructName): the positions of the
\* stack's children of that name.
TryFindChild(stack, name) ==
  {n \in DOMAIN lambdaFunctions :
     lambdaFunctions[n].stack = stack /\ lambdaFunctions[n].name = name}

\* Lines 36-48 and 50-67: the first construct of a stack creates the
\* function with its own role and uses it as service token.
NewConnectionCreatesLambda(stack, roleArn) ==
  /\ Len(connections) < MaxConnections
  /\ TryFindChild(stack, constructName) = {}
  /\ LET arn == Len(lambdaFunctions) + 1 IN
       /\ lambdaFunctions' = Append(lambdaFunctions,
            [stack |-> stack, name |-> constructName, role |-> roleArn, arn |-> arn])
       /\ connections' = Append(connections,
            [stack |-> stack, roleArn |-> roleArn, type |-> resourceType,
             serviceToken |-> arn])
  /\ UNCHANGED <<hvars, evars>>

\* Variant: the function found in the stack is given the new construct's role.
NewConnectionReusesLambdaWithItsRole(stack, roleArn) ==
  /\ Len(connections) < MaxConnections
  /\ TryFindChild(stack, constructName) # {}
  /\ LET n == CHOOSE k \in TryFindChild(stack, constructName) : TRUE IN
       /\ connections' = Append(connections,
            [stack |-> stack, roleArn |-> roleArn, type |-> resourceType,
             serviceToken |-> lambdaFunctions[n].arn])
       /\ lambdaFunctions' = [lambdaFunctions EXCEPT ![n].role = roleArn]
  /\ UNCHANGED <<hvars, evars>>

\* Lines 36-48 and 50-56: a later construct of the stack finds the function
\* and uses it as service token.
NewConnectionReusesLambda(stack, roleArn) ==
  /\ Len(connections) < MaxConnections
  /\ TryFindChild(stack, constructName) # {}
  /\ LET n == CHOOSE k \in TryFindChild(stack, constructName) : TRUE IN
       connections' = Append(connections,
            [stack |-> stack, roleArn |-> roleArn, type |-> resourceType,
             serviceToken |-> lambdaFunctions[n].arn])
  /\ UNCHANGED lambdaFunctions
  /\ UNCHANGED <<hvars, evars>>

Ec2AcceptVpcEndpointConnection ==
  \E stack \in CdkStacks, roleArn \in RoleArns :
    \/ NewConnectionCreatesLambda(stack, roleArn)
    \/ NewConnectionReusesLambda(stack, roleArn)

\* Constructs created in any order in two stacks.
InitVpce == HandlerInit /\ EbsIdle /\ VpceIdle
NextVpce == Ec2AcceptVpcEndpointConnection
SpecVpce == InitVpce /\ [][NextVpce]_vars

\* Concurrent copies of the Lambda.
Init == HandlerInit /\ EbsIdle /\ VpceIdle
Next == \E l \in Lambdas : handler(l, UpsertInputs)
Spec == Init /\ [][Next]_vars

\* A single copy of the Lambda, every shape of input.
InitGate == HandlerInit /\ EbsIdle /\ VpceIdle
NextGate == handler("L1", GateInputs)
SpecGate == InitGate /\ [][NextGate]_vars

\* ------------------------------------------------------------------------
\* Properties
\* ------------------------------------------------------------------------

\* The invocation of Lambda l has evaluated the exclusion check.
PastGate(l) == pc[l] \notin {"idle", "start"}

Issued(l, call) == call \in Range(calls[l])

\* C1: a request whose ignoreAccountId is given (a non-empty string), whose
\* ignoreRegion is not given and whose accountId equals ignoreAccountId is
\* skipped whatever its region (also when region is absent), and the
\* invocation issues no createOrUpdateStack call.
C1_AccountOnlyExclusion ==
  \A l \in Lambdas :
    ( /\ PastGate(l)
      /\ Truthy(input[l].ignoreAccountId)
      /\ ~Truthy(input[l].ignoreRegion)
      /\ input[l].accountId = input[l].ignoreAccountId )
    => pc[l] = "skipped" /\ ~Issued(l, "createOrUpdateStack")

C1_Witness ==
  \E l \in Lambdas :
    /\ pc[l] = "skipped"
    /\ input[l].ignoreAccountId = "acc-2"
    /\ input[l].accountId = "acc-2"
    /\ input[l].ignoreRegion = None
    /\ input[l].region = None

\* C2: when both ignoreAccountId and ignoreRegion are given (non-empty
\* strings), the request is skipped if and only if accountId equals
\* ignoreAccountId and region equals ignoreRegion; with a matching account
\* and another region it goes on to its external calls and the upsert.
C2_TwoFieldExclusion ==
  \A l \in Lambdas :
    ( /\ PastGate(l)
      /\ Truthy(input[l].ignoreAccountId)
      /\ Truthy(input[l].ignoreRegion) )
    => /\ pc[l] = "skipped"
            <=> ( /\ input[l].accountId = input[l].ignoreAccountId
                  /\ input[l].region = input[l].ignoreRegion )
       /\ pc[l] # "skipped" => Issued(l, "loadAccounts")

C2_Witness ==
  \E l \in Lambdas :
    /\ pc[l] = "done"
    /\ Issued(l, "createOrUpdateStack")
    /\ input[l].ignoreAccountId = "acc-2"
    /\ input[l].accountId = "acc-2"
    /\ input[l].ignoreRegion = "us-east-1"
    /\ input[l].region = "ca-central-1"

\* C3: an excluded request ends in a normal return and the invocation has
\* loaded no accounts, resolved no template, acquired no credentials, built
\* no client and issued no provider call.
C3_SilentSkip ==
  \A l \in Lambdas :
    (PastGate(l) /\ Excluded(input[l]))
    => /\ pc[l] = "skipped"
       /\ calls[l] = <<>>
       /\ cfn[l] = NoClient
       /\ outcome[l] = None

C3_Witness ==
  \E l \in Lambdas :
    /\ pc[l] = "skipped"
    /\ Excluded(input[l])
    /\ Truthy(input[l].ignoreRegion)
    /\ Truthy(input[l].assumeRoleName)

\* Number of constructs with the given id in the stack(s) registered for
\* the pair (a, r).
ConstructsIn(a, r, id) ==
  Cardinality({n \in DOMAIN constructs :
     /\ constructs[n].id = id
     /\ \E h \in accountStacks :
          h.id = constructs[n].stack /\ h.accountKey = a /\ h.region = r})

\* Positions of the log at which the pair (a, r) was handled as given.
Handled(a, r, kinds) ==
  {n \in DOMAIN ebsLog :
     ebsLog[n].accountKey = a /\ ebsLog[n].region = r /\ ebsLog[n].kind \in kinds}

\* C4: in one run, every (accountKey, region) gets the default EBS key at
\* most once, however many VPC configurations reach it; a request for a
\* pair that already has a recorded key creates nothing and the record
\* keeps the key that was created.
C4_Dedup ==
  /\ \A a \in AccountKeys, r \in RegionNames :
       /\ ConstructsIn(a, r, "EbsDefaultEncryptionKey") <= 1
       /\ Cardinality(Handled(a, r, {"created"})) <= 1
       /\ \A n \in Handled(a, r, {"exists"}) :
            /\ ebsLog[n].key # NoKey
            /\ ebsLog[n].key = RecordedKey(accountEbsEncryptionKeys, a, r)
  /\ Len(constructs) =
       3 * Cardinality({n \in DOMAIN ebsLog : ebsLog[n].kind = "created"})

C4_Witness ==
  \E n, m \in DOMAIN ebsLog :
    /\ n < m
    /\ ebsLog[n].kind = "created"
    /\ ebsLog[m].kind = "exists"
    /\ ebsLog[n].accountKey = ebsLog[m].accountKey
    /\ ebsLog[n].region = ebsLog[m].region
    /\ vpcConfigs[ebsLog[n].vpc].accountKey # vpcConfigs[ebsLog[m].vpc].accountKey
    /\ epc = "returned"

\* The VPC configurations whose inner loop is over.
FinishedVpcConfigs ==
  {v \in 1..Len(vpcConfigs) : v < vi \/ (v = vi /\ epc \in {"vpcConfigs", "returned"})}

\* C5: for every VPC configuration, the account keys processed are exactly
\* the owner together with the keys of the sharing result, each processed
\* exactly once, also when the sharing result repeats a key or names the
\* owner.
C5_SharedViaResolution ==
  \A v \in FinishedVpcConfigs :
    \A a \in AccountKeys :
      Cardinality({n \in DOMAIN ebsLog :
                     ebsLog[n].vpc = v /\ ebsLog[n].accountKey = a})
        = IF a \in {vpcConfigs[v].accountKey} \cup Range(vpcConfigs[v].vpcSharedTo)
            THEN 1 ELSE 0

C5_Witness ==
  \E v \in FinishedVpcConfigs :
    /\ vpcConfigs[v].accountKey = "ops"
    /\ vpcConfigs[v].vpcSharedTo = <<"shared", "shared">>
    /\ Cardinality({n \in DOMAIN ebsLog : ebsLog[n].vpc = v}) = 2

\* No two deployed stacks share account, region and name.
NoDuplicateStack ==
  \A u1, u2 \in stacks : KeyOf(u1) = KeyOf(u2) => u1 = u2

\* C6: an upsert whose request equals the previous completed upsert of the
\* same stack name at the same target reports Unchanged, and there are
\* never two deployed stacks of one name at one target.
C6_UpsertIdempotence ==
  /\ NoDuplicateStack
  /\ \A l \in Lambdas :
       (pc[l] = "done" /\ prior[l] = input[l].stackParameters)
       => outcome[l] = "Unchanged"

C6_Witness ==
  \E l \in Lambdas :
    /\ pc[l] = "done"
    /\ prior[l] = input[l].stackParameters
    /\ outcome[l] = "Unchanged"
    /\ Cardinality(stacks) = 1

\* C7: an upsert of a stack that does not exist creates it and reports
\* Created; an upsert with parameters other than the deployed ones updates
\* that stack in place and reports Updated; an upsert with the deployed
\* parameters reports Unchanged.
C7_CreateOrUpdateOutcomes ==
  /\ \A l \in Lambdas :
       pc[l] = "done"
       => outcome[l] = IF prior[l] = None THEN "Created"
                       ELSE IF prior[l] # input[l].stackParameters THEN "Updated"
                       ELSE "Unchanged"
  /\ \A k \in StackKeys :
       {u \in stacks : KeyOf(u) = k}
         = IF lastUpsert[k] = None THEN {} ELSE {Unit(k, lastUpsert[k])}

C7_Witness ==
  \E l \in Lambdas :
    /\ pc[l] = "done"
    /\ outcome[l] = "Updated"
    /\ prior[l] = "p1"
    /\ input[l].stackParameters = "p2"
    /\ invocations = 2

\* C8 (as claimed): there are never two createOrUpdateStack calls in flight
\* at the same time for the same stack name and target.
C8_NoConcurrentUpsert ==
  \A l1, l2 \in Lambdas :
    ( /\ l1 # l2
      /\ pc[l1] = "createOrUpdateStack"
      /\ pc[l2] = "createOrUpdateStack" )
    => StackKey(cfn[l1], input[l1]) # StackKey(cfn[l2], input[l2])

\* The requests for (a, r) that found an account stack, in log order.
Served(a, r) == Handled(a, r, {"created", "exists"})

C10_NoDelegationForHomeAccount ==
  \A l \in Lambdas :
    input[l].accountId = HomeAccount
    => /\ ~Issued(l, "getCredentialsForAccountAndRole")
       /\ Issued(l, "createOrUpdateStack") => cfn[l].credentials = AmbientCredentials

\* The request names both an account and a role (non-empty strings).
NamesAccountAndRole(l) ==
  Truthy(input[l].accountId) /\ Truthy(input[l].assumeRoleName)

\* C11: an invocation on the delegated path asks for credentials exactly
\* once, after the template body is resolved, and its next external call is
\* createOrUpdateStack; no two upsert calls, of the same or of different
\* invocations, use the same credentials.
C11_FreshCredentialsPerUpsert ==
  /\ \A l \in Lambdas :
       /\ Issued(l, "getCredentialsForAccountAndRole")
            => /\ SubSeq(calls[l], 1, 3) =
                    <<"loadAccounts", "getTemplateBody", "getCredentialsForAccountAndRole">>
               /\ Len(calls[l]) = 4 => calls[l][4] = "createOrUpdateStack"
               /\ Len(calls[l]) <= 4
       /\ (NamesAccountAndRole(l) /\ Issued(l, "createOrUpdateStack"))
            => /\ Issued(l, "getCredentialsForAccountAndRole")
               /\ session[l] # 0
  /\ \A n, m \in DOMAIN sessionsUsed : n # m => sessionsUsed[n] # sessionsUsed[m]
  /\ \A l1, l2 \in Lambdas : (l1 # l2 /\ session[l1] # 0) => session[l1] # session[l2]

C11_Witness ==
  /\ Len(sessionsUsed) = 3
  /\ \E l \in Lambdas :
       /\ pc[l] = "done"
       /\ session[l] = 3
       /\ calls[l] = <<"loadAccounts", "getTemplateBody",
                       "getCredentialsForAccountAndRole", "createOrUpdateStack">>

\* C12: when loadAccounts or getTemplateBody rejects, the invocation ends
\* in an error and has acquired no credentials, built no client and issued
\* no createOrUpdateStack call.
C12_SetupFailuresAreFatal ==
  \A l \in Lambdas :
    error[l] \in {"loadAccounts", "getTemplateBody"}
    => /\ pc[l] = "threw"
       /\ ~Issued(l, "getCredentialsForAccountAndRole")
       /\ ~Issued(l, "createOrUpdateStack")
       /\ cfn[l] = NoClient
       /\ session[l] = 0
       /\ outcome[l] = None

C12_Witness ==
  \E l \in Lambdas :
    /\ pc[l] = "threw"
    /\ error[l] = "getTemplateBody"
    /\ NamesAccountAndRole(l)
    /\ calls[l] = <<"loadAccounts", "getTemplateBody">>

C16_CredentialSourceSelection ==
  \A l \in Lambdas :
    /\ Issued(l, "createOrUpdateStack")
         => IF NamesAccountAndRole(l)
              THEN cfn[l].credentials =
                     DelegatedCredentials(input[l].accountId, input[l].assumeRoleName)
              ELSE cfn[l].credentials = AmbientCredentials
    /\ ~NamesAccountAndRole(l)
         => ~Issued(l, "getCredentialsForAccountAndRole") /\ session[l] = 0

C16_Witness ==
  \E l \in Lambdas :
    /\ pc[l] = "done"
    /\ input[l].accountId = "acc-2"
    /\ input[l].assumeRoleName = None
    /\ cfn[l].credentials = AmbientCredentials
    /\ calls[l] = <<"loadAccounts", "getTemplateBody", "createOrUpdateStack">>

\* C18: without both accountId and assumeRoleName the client is built
\* without a region and the upsert lands in the ambient region, whatever
\* region the request names (the region the exclusion check compared);
\* with both, the client is built with the request's region.
C18_RegionOnlyOnDelegatedPath ==
  \A l \in Lambdas :
    Issued(l, "createOrUpdateStack")
    => IF NamesAccountAndRole(l)
         THEN /\ cfn[l].region = input[l].region
              /\ Truthy(input[l].region) => TargetOf(cfn[l]).region = input[l].region
         ELSE /\ cfn[l].region = None
              /\ TargetOf(cfn[l]).region = HomeRegion

C18_Witness ==
  \E l \in Lambdas :
    /\ pc[l] = "done"
    /\ input[l].assumeRoleName = None
    /\ input[l].accountId = "acc-2"
    /\ input[l].ignoreAccountId = "acc-2"
    /\ input[l].ignoreRegion = "us-east-1"
    /\ input[l].region = "ca-central-1"
    /\ stacks = {Unit([account |-> HomeAccount, region |-> HomeRegion,
                       name |-> "stack"], "p1")}

\* C17: the record has an entry for (accountKey, region) only if this run
\* created that key in the pair's stack; a pair skipped for want of a stack
\* has no entry, so every later request for it tries again instead of
\* finding a key; and a key once recorded stays recorded while keys of
\* other accounts and of the account's other regions are recorded.
C17_RecordSoundness ==
  \A a \in AccountKeys, r \in RegionNames :
    /\ RecordedKey(accountEbsEncryptionKeys, a, r) # NoKey
         => /\ \E n \in Handled(a, r, {"created"}) :
                 ebsLog[n].key = RecordedKey(accountEbsEncryptionKeys, a, r)
            /\ \E n \in DOMAIN constructs :
                 /\ constructs[n].id = "EbsDefaultEncryptionKey"
                 /\ constructs[n].ref = RecordedKey(accountEbsEncryptionKeys, a, r)
                 /\ \E h \in accountStacks :
                      h.id = constructs[n].stack /\ h.accountKey = a /\ h.region = r
    /\ \A n \in Handled(a, r, {"created"}) :
         RecordedKey(accountEbsEncryptionKeys, a, r) = ebsLog[n].key
    /\ Handled(a, r, {"warn"}) # {}
         => /\ RecordedKey(accountEbsEncryptionKeys, a, r) = NoKey
            /\ Handled(a, r, {"exists", "created"}) = {}

C17_Witness ==
  /\ epc = "returned"
  /\ \E a \in AccountKeys :
       /\ RecordedKey(accountEbsEncryptionKeys, a, "us-east-1") # NoKey
       /\ RecordedKey(accountEbsEncryptionKeys, a, "ca-central-1") # NoKey
  /\ \E a \in AccountKeys, r \in RegionNames : Handled(a, r, {"warn"}) # {}

\* The handle a registry call returned, if any.
HandleOfCall(n) == {h \in accountStacks : h.id = stackCalls[n].stack}

\* C13: after any sequence of registry calls of a run there is at most one
\* stack handle per (accountKey, region), a call that gives no region
\* counting as a call for the home region, and calls for the same target
\* return the same handle; the central log bucket and the AES log bucket
\* are created in the one stack of the log account.
C13_SingleHandlePerTarget ==
  /\ \A h1, h2 \in accountStacks :
       ( /\ h1.accountKey = h2.accountKey
         /\ DefaultedRegion(h1.region) = DefaultedRegion(h2.region) ) => h1 = h2
  /\ \A n, m \in DOMAIN stackCalls :
       ( /\ stackCalls[n].accountKey = stackCalls[m].accountKey
         /\ DefaultedRegion(stackCalls[n].region) = DefaultedRegion(stackCalls[m].region) )
       => stackCalls[n].stack = stackCalls[m].stack
  /\ \A n \in DOMAIN stackCalls :
       stackCalls[n].stack # NoHandle.id
       => \E h \in HandleOfCall(n) :
            /\ HandleOfCall(n) = {h}
            /\ h.accountKey = stackCalls[n].accountKey
            /\ DefaultedRegion(h.region) = DefaultedRegion(stackCalls[n].region)
  /\ \A n, m \in DOMAIN constructs :
       ( /\ constructs[n].id = "LogBucketOutput"
         /\ constructs[m].id \in {"AesBucket", "AesLogBucketOutput"} )
       => /\ constructs[n].stack = constructs[m].stack
          /\ \E h \in accountStacks :
               h.id = constructs[n].stack /\ h.accountKey = LogAccountKey

C13_Witness ==
  /\ spc = "returned"
  /\ \E n \in DOMAIN constructs : constructs[n].id = "AesBucket"
  /\ \E n, m \in DOMAIN stackCalls :
       /\ n < m
       /\ stackCalls[n].accountKey = stackCalls[m].accountKey
       /\ stackCalls[n].region = None
       /\ stackCalls[m].region = HomeRegion
       /\ stackCalls[n].stack = stackCalls[m].stack
       /\ stackCalls[n].stack # NoHandle.id

\* C14: in blockS3PublicAccess and createDefaultEbsEncryptionKey an account
\* for which no stack can be obtained is warned about and gets no stack and
\* no construct, and the loop goes on: when the loop is over, every account
\* configuration, and every account of every VPC configuration, has been
\* handled.
C14_FailureIsolation ==
  /\ \A n \in DOMAIN s3Log :
       /\ s3Log[n].accountKey = ConfigAccountKeys[n]
       /\ s3Log[n].kind = "warn"
            => \A h \in accountStacks : h.accountKey # s3Log[n].accountKey
  /\ spc # "blockS3PublicAccess" => Len(s3Log) = Len(ConfigAccountKeys)
  /\ \A n \in DOMAIN ebsLog :
       ebsLog[n].kind = "warn"
         => \A h \in accountStacks : h.accountKey # ebsLog[n].accountKey
  /\ \A v \in FinishedVpcConfigs :
       \A a \in Range(VpcAccountKeys(vpcConfigs[v])) :
         \E n \in DOMAIN ebsLog : ebsLog[n].vpc = v /\ ebsLog[n].accountKey = a
  /\ epc = "returned" => FinishedVpcConfigs = 1..Len(vpcConfigs)

C14_Witness ==
  /\ spc = "returned"
  /\ \E n, m \in DOMAIN s3Log :
       n < m /\ s3Log[n].kind = "warn" /\ s3Log[m].kind = "blocked"
  /\ \E n, m \in DOMAIN ebsLog :
       /\ n < m
       /\ ebsLog[n].kind = "warn"
       /\ ebsLog[m].kind = "created"
       /\ ebsLog[n].vpc = 1
       /\ ebsLog[m].vpc = 2

\* The connection constructs of a stack, in creation order.
ConnectionsIn(stack) == {n \in DOMAIN connections : connections[n].stack = stack}

\* C19: a stack holding Ec2AcceptVpcEndpointConnection constructs has
\* exactly one child named 'Custom::ModifyVpcEndpointServicePermissionsLambda';
\* its role is the role of the stack's first construct, whatever roles the
\* later constructs name, and it is the service token of every construct
\* of the stack.
C19_OneLambdaPerStack ==
  \A stack \in CdkStacks :
    /\ ConnectionsIn(stack) = {} => TryFindChild(stack, constructName) = {}
    /\ ConnectionsIn(stack) # {}
         => \E f \in TryFindChild(stack, constructName) :
              /\ TryFindChild(stack, constructName) = {f}
              /\ \A n \in ConnectionsIn(stack) :
                   /\ connections[n].serviceToken = lambdaFunctions[f].arn
                   /\ (\A m \in ConnectionsIn(stack) : n <= m)
                        => lambdaFunctions[f].role = connections[n].roleArn
    /\ \A f, g \in DOMAIN lambdaFunctions :
         lambdaFunctions[f].arn = lambdaFunctions[g].arn => f = g

C19_Witness ==
  \E stack \in CdkStacks :
    /\ Cardinality(ConnectionsIn(stack)) = 3
    /\ \E n, m \in ConnectionsIn(stack) :
         /\ n < m
         /\ connections[n].roleArn = "arn:role/one"
         /\ connections[m].roleArn = "arn:role/two"
         /\ \A k \in ConnectionsIn(stack) : n <= k
         /\ \E f \in TryFindChild(stack, constructName) :
              lambdaFunctions[f].role = "arn:role/one"
    /\ Len(lambdaFunctions) = 2

====
